---- MODULE Spec2Model ----
(***************************************************************************)
(* PhiFlow: phi/physics/advect.py and phi/physics/fluid.py.                *)
(*                                                                         *)
(* Fields live on a one-dimensional domain of Res unit cells.  Numbers are *)
(* exact rationals <<numerator, denominator>>; the quotient by zero is the *)
(* absorbing value NaN.  Every function of the two files is an operator    *)
(* that returns either [ok |-> TRUE, value |-> ...] or an exception record *)
(* [ok |-> FALSE, error |-> ..., arg |-> ...].                             *)
(***************************************************************************)
EXTENDS Integers, Sequences, FiniteSets, TLC

(* ------------------------------ bounds -------------------------------- *)

\* cells of the one-dimensional domain
Res == 2
\* time increments are k/2 for k in 0..MaxDt
MaxDt == 2
\* largest number of points of a point cloud
MaxPoints == 2
\* stored field values are 0..MaxVal, velocities -1..1
MaxVal == 2
\* largest batch of velocities projected at once
MaxBatch == 2
\* max_iterations ranges over 0..MaxIter
MaxIter == 1
\* longest list of obstacles layered onto a velocity
MaxObstacles == 2
\* longest list of density effects and of velocity effects
MaxEffects == 2

(* ------------------------- rational arithmetic ------------------------- *)

RECURSIVE Gcd(_, _)
Gcd(a, b) == IF b = 0 THEN a ELSE Gcd(b, a % b)

Abs(n) == IF n < 0 THEN -n ELSE n

NaN == <<0, 0>>

IsNaN(x) == x[2] = 0

Rat(n, d) ==
    IF d = 0 THEN NaN
    ELSE LET g == Gcd(Abs(n), Abs(d))
             s == IF d < 0 THEN -1 ELSE 1
         IN  <<(s * n) \div g, (s * d) \div g>>

Num(n) == <<n, 1>>

RAdd(x, y) == IF IsNaN(x) \/ IsNaN(y) THEN NaN ELSE Rat(x[1] * y[2] + y[1] * x[2], x[2] * y[2])

RNeg(x) == <<-x[1], x[2]>>

RSub(x, y) == RAdd(x, RNeg(y))

RMul(x, y) == IF IsNaN(x) \/ IsNaN(y) THEN NaN ELSE Rat(x[1] * y[1], x[2] * y[2])

RDiv(x, y) == IF IsNaN(x) \/ IsNaN(y) \/ y[1] = 0 THEN NaN ELSE Rat(x[1] * y[2], x[2] * y[1])

RLeq(x, y) == ~IsNaN(x) /\ ~IsNaN(y) /\ x[1] * y[2] <= y[1] * x[2]

RMin(x, y) == IF IsNaN(x) \/ IsNaN(y) THEN NaN ELSE IF RLeq(x, y) THEN x ELSE y

RMax(x, y) == IF IsNaN(x) \/ IsNaN(y) THEN NaN ELSE IF RLeq(x, y) THEN y ELSE x

RAbs(x) == <<Abs(x[1]), x[2]>>

RFloor(x) == x[1] \div x[2]

RECURSIVE RSum(_)
RSum(s) == IF s = <<>> THEN Num(0) ELSE RAdd(Head(s), RSum(Tail(s)))

\* the sequence <<Op(1), ..., Op(n)>>
Tab(n, Op(_)) ==
    LET RECURSIVE T(_)
        T(k) == IF k = 0 THEN <<>> ELSE Append(T(k - 1), Op(k))
    IN  T(n)

(* --------------------------- field substrate --------------------------- *)

\* grid spacing of the domain
dx == Num(1)

SampledKinds == {"PointCloud", "CenteredGrid", "StaggeredGrid"}

FieldKinds == SampledKinds \cup {"ConstantField", "AngularVelocity"}

IsInstance(f, kinds) == f.kind \in kinds

CenteredGrid(values, extrapolation) ==
    [kind |-> "CenteredGrid", values |-> values, extrapolation |-> extrapolation]

StaggeredGrid(values, extrapolation) ==
    [kind |-> "StaggeredGrid", values |-> values, extrapolation |-> extrapolation]

ConstantField(value) == [kind |-> "ConstantField", value |-> value]

AngularVelocity(location, strength) ==
    [kind |-> "AngularVelocity", location |-> location, strength |-> strength]

PointCloud(elements, values, extrapolation, add_overlapping) ==
    [kind |-> "PointCloud", elements |-> elements, values |-> values,
     extrapolation |-> extrapolation, add_overlapping |-> add_overlapping]

\* sample points of a grid: cell centres i - 1/2, or faces i - 1
Points(f) ==
    IF f.kind = "CenteredGrid"
    THEN Tab(Len(f.values), LAMBDA i : Rat(2 * i - 1, 2))
    ELSE Tab(Len(f.values), LAMBDA i : Num(i - 1))

Elements(f) == IF f.kind = "PointCloud" THEN f.elements ELSE Points(f)

\* value of a grid at sample index i, inside or outside its support; the
\* extrapolation is <<rule below the domain, rule above the domain>>
ValueAt(f, i) ==
    LET n == Len(f.values)
        e == IF i < 1 THEN f.extrapolation[1] ELSE f.extrapolation[2]
    IN  IF i \in 1..n THEN f.values[i]
        ELSE IF e = "zero" THEN Num(0)
        ELSE IF e = "one" THEN Num(1)
        ELSE IF e = "periodic" THEN f.values[((i - 1) % n) + 1]
        ELSE IF i < 1 THEN f.values[1] ELSE f.values[n]

\* continuous sample index of position x: sample i sits at index i
GridIndex(f, x) == IF f.kind = "CenteredGrid" THEN RAdd(x, Rat(1, 2)) ELSE RAdd(x, Num(1))

\* the two stored values next to position x
ClosestValues(f, x) ==
    LET lo == RFloor(GridIndex(f, x))
    IN  <<ValueAt(f, lo), ValueAt(f, lo + 1)>>

RECURSIVE ScatterSum(_, _, _)
ScatterSum(elements, values, x) ==
    IF elements = <<>> THEN Num(0)
    ELSE RAdd(IF Head(elements) = x THEN Head(values) ELSE Num(0),
              ScatterSum(Tail(elements), Tail(values), x))

\* value of a field at position x (linear interpolation on grids)
SampleAt(f, x) ==
    IF IsNaN(x) THEN NaN
    ELSE IF f.kind = "ConstantField" THEN f.value
    ELSE IF f.kind = "AngularVelocity" THEN RMul(f.strength, RSub(x, f.location))
    ELSE IF f.kind = "PointCloud" THEN ScatterSum(f.elements, f.values, x)
    ELSE LET u  == GridIndex(f, x)
             lo == RFloor(u)
             w  == RSub(u, Num(lo))
         IN  RAdd(RMul(RSub(Num(1), w), ValueAt(f, lo)), RMul(w, ValueAt(f, lo + 1)))

SampleIn(f, elements) == Tab(Len(elements), LAMBDA i : SampleAt(f, elements[i]))

Shifted(elements, delta) == Tab(Len(elements), LAMBDA i : RAdd(elements[i], delta[i]))

With(f, values) == [f EXCEPT !.values = values]

Return(v) == [ok |-> TRUE, value |-> v]

Raise(e, a) == [ok |-> FALSE, error |-> e, arg |-> a]

(* ------------------------------ advect.py ------------------------------ *)

TScale(c, t) == Tab(Len(t), LAMBDA i : RMul(c, t[i]))

TAdd(s, t) == Tab(Len(s), LAMBDA i : RAdd(s[i], t[i]))

TSub(s, t) == Tab(Len(s), LAMBDA i : RSub(s[i], t[i]))

TMul(s, t) == Tab(Len(s), LAMBDA i : RMul(s[i], t[i]))

semi_lagrangian(field, velocity, dt) ==
    LET v == SampleIn(velocity, Elements(field))
        x == TSub(Points(field), TScale(dt, v))
        interpolated == SampleIn(field, x)
    IN  Return(With(field, interpolated))

\* mac_cormack with the limiter's bounds looked up at the forward-traced points
mac_cormack_forward_limits(field, velocity, dt, correction_strength) ==
    LET v     == SampleIn(velocity, Elements(field))
        x0    == Points(field)
        x_bwd == TSub(x0, TScale(dt, v))
        x_fwd == TAdd(x0, TScale(dt, v))
        field_semi_la     == With(field, SampleIn(field, x_bwd))
        field_inv_semi_la == With(field, SampleIn(field_semi_la, x_fwd))
        new_field ==
            TAdd(field_semi_la.values,
                 TScale(RMul(correction_strength, Rat(1, 2)),
                        TSub(field.values, field_inv_semi_la.values)))
        limits == Tab(Len(x_fwd), LAMBDA i : ClosestValues(field, x_fwd[i]))
        lower_limit == Tab(Len(limits), LAMBDA i : RMin(limits[i][1], limits[i][2]))
        upper_limit == Tab(Len(limits), LAMBDA i : RMax(limits[i][1], limits[i][2]))
        values_clamped ==
            Tab(Len(new_field), LAMBDA i : RMin(RMax(new_field[i], lower_limit[i]), upper_limit[i]))
    IN  Return(With(field, values_clamped))

mac_cormack(field, velocity, dt, correction_strength) ==
    LET v     == SampleIn(velocity, Elements(field))
        x0    == Points(field)
        x_bwd == TSub(x0, TScale(dt, v))
        x_fwd == TAdd(x0, TScale(dt, v))
        field_semi_la     == With(field, SampleIn(field, x_bwd))
        field_inv_semi_la == With(field, SampleIn(field_semi_la, x_fwd))
        new_field ==
            TAdd(field_semi_la.values,
                 TScale(RMul(correction_strength, Rat(1, 2)),
                        TSub(field.values, field_inv_semi_la.values)))
        limits == Tab(Len(x_bwd), LAMBDA i : ClosestValues(field, x_bwd[i]))
        lower_limit == Tab(Len(limits), LAMBDA i : RMin(limits[i][1], limits[i][2]))
        upper_limit == Tab(Len(limits), LAMBDA i : RMax(limits[i][1], limits[i][2]))
        values_clamped ==
            Tab(Len(new_field), LAMBDA i : RMin(RMax(new_field[i], lower_limit[i]), upper_limit[i]))
    IN  Return(With(field, values_clamped))

\* runge_kutta_4 with the factor 2 applied to vel_k2 only
runge_kutta_4_misweighted(field, velocity, dt) ==
    IF ~IsInstance(field, SampledKinds) THEN Raise("AssertionError", "SampledField")
    ELSE IF ~IsInstance(velocity, FieldKinds) THEN Raise("AssertionError", "Field")
    ELSE
    LET points_ == Elements(field)
        vel_k1 == SampleIn(velocity, points_)
        vel_k2 == SampleIn(velocity, Shifted(points_, TScale(RMul(Rat(1, 2), dt), vel_k1)))
        vel_k3 == SampleIn(velocity, Shifted(points_, TScale(RMul(Rat(1, 2), dt), vel_k2)))
        vel_k4 == SampleIn(velocity, Shifted(points_, TScale(dt, vel_k3)))
        vel == TScale(Rat(1, 6),
                      TAdd(TAdd(vel_k1, TAdd(TScale(Num(2), vel_k2), vel_k3)), vel_k4))
        new_points == Shifted(points_, TScale(dt, vel))
    IN  Return(PointCloud(new_points, field.values, field.extrapolation, field.add_overlapping))

runge_kutta_4(field, velocity, dt) ==
    IF ~IsInstance(field, SampledKinds) THEN Raise("AssertionError", "SampledField")
    ELSE IF ~IsInstance(velocity, FieldKinds) THEN Raise("AssertionError", "Field")
    ELSE
    LET points_ == Elements(field)
        vel_k1 == SampleIn(velocity, points_)
        vel_k2 == SampleIn(velocity, Shifted(points_, TScale(RMul(Rat(1, 2), dt), vel_k1)))
        vel_k3 == SampleIn(velocity, Shifted(points_, TScale(RMul(Rat(1, 2), dt), vel_k2)))
        vel_k4 == SampleIn(velocity, Shifted(points_, TScale(dt, vel_k3)))
        vel == TScale(Rat(1, 6),
                      TAdd(TAdd(vel_k1, TScale(Num(2), TAdd(vel_k2, vel_k3))), vel_k4))
        new_points == Shifted(points_, TScale(dt, vel))
    IN  Return(PointCloud(new_points, field.values, field.extrapolation, field.add_overlapping))

points(field, velocity, dt) ==
    IF Elements(field) # Elements(velocity) THEN Raise("AssertionError", "elements")
    ELSE
    LET new_points == Shifted(field.elements, TScale(dt, velocity.values))
    IN  Return(PointCloud(new_points, field.values, field.extrapolation, field.add_overlapping))

\* advect sending every point-cloud velocity to the Euler scheme
advect_any_point_velocity(field, velocity, dt) ==
    IF IsInstance(field, {"PointCloud"}) THEN
        IF IsInstance(velocity, {"PointCloud"})
        THEN points(field, velocity, dt)
        ELSE runge_kutta_4(field, velocity, dt)
    ELSE IF IsInstance(field, {"ConstantField"}) THEN Return(field)
    ELSE IF IsInstance(field, {"CenteredGrid", "StaggeredGrid"})
    THEN semi_lagrangian(field, velocity, dt)
    ELSE Raise("NotImplementedError", field)

advect(field, velocity, dt) ==
    IF IsInstance(field, {"PointCloud"}) THEN
        IF IsInstance(velocity, {"PointCloud"}) /\ velocity.elements = field.elements
        THEN points(field, velocity, dt)
        ELSE runge_kutta_4(field, velocity, dt)
    ELSE IF IsInstance(field, {"ConstantField"}) THEN Return(field)
    ELSE IF IsInstance(field, {"CenteredGrid", "StaggeredGrid"})
    THEN semi_lagrangian(field, velocity, dt)
    ELSE Raise("NotImplementedError", field)

(* ------------------- field substrate used by fluid.py ------------------- *)

\* Material: what lies beyond one side of the domain
Materials == {"OPEN", "CLOSED"}

Domain(lower, upper) == [resolution |-> Res, boundaries |-> <<lower, upper>>]

active_extrapolation(boundaries) == <<"zero", "zero">>

accessible_extrapolation(boundaries) ==
    Tab(2, LAMBDA s : IF boundaries[s] = "OPEN" THEN "one" ELSE "zero")

scalar_extrapolation(boundaries) ==
    Tab(2, LAMBDA s : IF boundaries[s] = "OPEN" THEN "zero" ELSE "boundary")

vector_extrapolation(boundaries) ==
    Tab(2, LAMBDA s : IF boundaries[s] = "OPEN" THEN "boundary" ELSE "zero")

Box(lower, upper) == [lower |-> lower, upper |-> upper]

Center(geometry) == RMul(Rat(1, 2), RAdd(geometry.lower, geometry.upper))

LiesInside(geometry, x) == RLeq(geometry.lower, x) /\ RLeq(x, geometry.upper)

Obstacle(geometry, velocity, angular_velocity, is_stationary) ==
    [geometry |-> geometry, velocity |-> velocity,
     angular_velocity |-> angular_velocity, is_stationary |-> is_stationary]

\* domain.grid(~union(geometries)): 1 at the cells whose centre no geometry holds
ComplementGrid(domain, geometries, extrapolation) ==
    CenteredGrid(Tab(domain.resolution, LAMBDA i :
                    IF \E k \in DOMAIN geometries : LiesInside(geometries[k], Rat(2 * i - 1, 2))
                    THEN Num(0) ELSE Num(1)),
                 extrapolation)

\* domain.grid(0)
ZeroGrid(domain) ==
    CenteredGrid(Tab(domain.resolution, LAMBDA i : Num(0)), scalar_extrapolation(domain.boundaries))

\* field.stagger(f, math.minimum): face j lies between the cells j-1 and j
StaggerMinimum(f) ==
    StaggeredGrid(Tab((Len(f.values) + 1), LAMBDA j : RMin(ValueAt(f, j - 1), ValueAt(f, j))),
                  f.extrapolation)

Divergence(v) ==
    CenteredGrid(Tab((Len(v.values) - 1), LAMBDA i : RDiv(RSub(v.values[i + 1], v.values[i]), dx)),
                 <<"zero", "zero">>)

Mean(f) == RDiv(RSum(f.values), Num(Len(f.values)))

StaggeredGradient(p) ==
    StaggeredGrid(Tab((Len(p.values) + 1), LAMBDA j :
                      RDiv(RSub(ValueAt(p, j), ValueAt(p, j - 1)), dx)),
                  <<"zero", "zero">>)

\* field.shift(f, (offset,)): the neighbour values, by the field's extrapolation
Shift(f, offset) == Tab(Len(f.values), LAMBDA i : ValueAt(f, i + offset))

\* GeometryMask(geometry) sampled at the velocity sample at x: the fraction of
\* the sample's cell [x - dx/2, x + dx/2] that lies inside the geometry
GeometryMaskAt(geometry, x) ==
    LET half == RMul(Rat(1, 2), dx)
        lo == RMax(geometry.lower, RSub(x, half))
        hi == RMin(geometry.upper, RAdd(x, half))
    IN  IF RLeq(hi, lo) THEN Num(0) ELSE RDiv(RSub(hi, lo), dx)

MaxAbs(t) ==
    LET RECURSIVE M(_)
        M(s) == IF s = <<>> THEN Num(0) ELSE RMax(RAbs(Head(s)), M(Tail(s)))
    IN  M(t)

\* residual r of a solve for right-hand side y meets the tolerances
WithinTolerance(r, y, relative_tolerance, absolute_tolerance) ==
    RLeq(MaxAbs(r), RMax(RMul(relative_tolerance, MaxAbs(y)), absolute_tolerance))

(* ------------------------------- fluid.py ------------------------------- *)

\* layer_obstacle_velocities blending the stationary obstacles too
RECURSIVE layer_all_obstacle_velocities(_, _)
layer_all_obstacle_velocities(velocity, obstacles) ==
    IF obstacles = <<>> THEN velocity
    ELSE
    LET obstacle == Head(obstacles)
        at == Points(velocity)
        obs_mask == Tab(Len(at), LAMBDA j : GeometryMaskAt(obstacle.geometry, at[j]))
        angular_velocity ==
            SampleIn(AngularVelocity(Center(obstacle.geometry), obstacle.angular_velocity), at)
        obs_vel == Tab(Len(at), LAMBDA j : RAdd(angular_velocity[j], obstacle.velocity))
        blended ==
            With(velocity,
                 TAdd(TMul(Tab(Len(at), LAMBDA j : RSub(Num(1), obs_mask[j])), velocity.values),
                      TMul(obs_mask, obs_vel)))
    IN  layer_all_obstacle_velocities(blended, Tail(obstacles))

RECURSIVE layer_obstacle_velocities(_, _)
layer_obstacle_velocities(velocity, obstacles) ==
    IF obstacles = <<>> THEN velocity
    ELSE
    LET obstacle == Head(obstacles)
        at == Points(velocity)
        obs_mask == Tab(Len(at), LAMBDA j : GeometryMaskAt(obstacle.geometry, at[j]))
        angular_velocity ==
            SampleIn(AngularVelocity(Center(obstacle.geometry), obstacle.angular_velocity), at)
        obs_vel == Tab(Len(at), LAMBDA j : RAdd(angular_velocity[j], obstacle.velocity))
        blended ==
            With(velocity,
                 TAdd(TMul(Tab(Len(at), LAMBDA j : RSub(Num(1), obs_mask[j])), velocity.values),
                      TMul(obs_mask, obs_vel)))
    IN  layer_obstacle_velocities(IF ~obstacle.is_stationary THEN blended ELSE velocity,
                                  Tail(obstacles))

masked_laplace(pressure, active, accessible) ==
    LET act_pr == CenteredGrid(TMul(active.values, pressure.values), <<"zero", "zero">>)
        left_act_pr  == Shift(act_pr, -1)
        right_act_pr == Shift(act_pr, 1)
        left_access  == Shift(accessible, -1)
        right_access == Shift(accessible, 1)
        left_right == TMul(TAdd(left_act_pr, right_act_pr), active.values)
        center == TMul(TAdd(left_access, right_access), pressure.values)
        result == Tab(Len(center), LAMBDA i :
                      RDiv(RSub(left_right[i], center[i]), RMul(dx, dx)))
    IN  CenteredGrid(result, <<"zero", "zero">>)

active_mask(domain, obstacles) ==
    ComplementGrid(domain, Tab(Len(obstacles), LAMBDA k : obstacles[k].geometry),
                   active_extrapolation(domain.boundaries))

accessible_mask(domain, obstacles) ==
    CenteredGrid(active_mask(domain, obstacles).values,
                 accessible_extrapolation(domain.boundaries))

hard_bcs(domain, obstacles) == StaggerMinimum(accessible_mask(domain, obstacles))

\* lines 31-32: the velocity masked by hard_bcs and coupled to the obstacles;
\* velocity is a batch, velocity[b] one entry of it
coupled_velocity(velocity, domain, obstacles) ==
    Tab(Len(velocity), LAMBDA b :
        layer_obstacle_velocities(
            With(velocity[b], TMul(velocity[b].values, hard_bcs(domain, obstacles).values)),
            obstacles))

\* lines 33-34: its divergence less the mean of that divergence
solve_divergence(velocity, domain, obstacles) ==
    Tab(Len(velocity), LAMBDA b :
        LET div == Divergence(coupled_velocity(velocity, domain, obstacles)[b])
        IN  With(div, Tab(Len(div.values), LAMBDA i : RSub(div.values[i], Mean(div)))))

\* pressure values the linear solve may return
PressureValues == {Rat(k, Res * (Res + 1)) : k \in -(Res + 1)..(Res + 1)}

Residual(y, x, active, accessible) ==
    TSub(y.values, masked_laplace(x, active, accessible).values)

\* field.conjugate_gradient(laplace, y, x0, ...), laplace being masked_laplace
\* with the two masks bound: the answers its contract allows.  When every
\* entry's initial guess meets the tolerances, or no iteration is allowed, the
\* guess is the answer after 0 iterations.  Otherwise the loop runs: an entry
\* is reported converged with a pressure that meets the tolerances, or not
\* converged; the loop ends when all entries converged or after
\* max_iterations iterations.
conjugate_gradient(active, accessible, y, x0, relative_tolerance, absolute_tolerance, max_iterations) ==
    LET Meets(b, x) ==
            WithinTolerance(Residual(y[b], x, active, accessible), y[b].values,
                            relative_tolerance, absolute_tolerance)
        Candidates == {With(x0, t) : t \in [DOMAIN x0.values -> PressureValues]}
        Initial == Tab(Len(y), LAMBDA b : [converged |-> Meets(b, x0), pressure |-> x0])
        Entry == Tab(Len(y), LAMBDA b :
                    IF Initial[b].converged THEN {Initial[b]}
                    ELSE {[converged |-> TRUE, pressure |-> x] : x \in {c \in Candidates : Meets(b, c)}}
                         \cup {Initial[b]})
        Answer(e, k) ==
            [converged |-> Tab(Len(y), LAMBDA b : e[b].converged),
             pressure |-> Tab(Len(y), LAMBDA b : e[b].pressure),
             iterations |-> k]
        RECURSIVE Iterated(_)
        Iterated(n) ==
            IF n = 0 THEN {<<>>}
            ELSE {Append(e, a) : e \in Iterated(n - 1), a \in Entry[n]}
    IN  IF (\A b \in DOMAIN y : Initial[b].converged) \/ max_iterations = 0
        THEN {Answer(Initial, 0)}
        ELSE {Answer(e, k) : e \in Iterated(Len(y)), k \in 1..max_iterations} \
             {Answer(e, k) : e \in {f \in Iterated(Len(y)) : \E b \in DOMAIN y : ~f[b].converged},
                             k \in 1..(max_iterations - 1)}

\* make_incompressible asserting that any entry converged
make_incompressible_any_converged(velocity, domain, obstacles, solve) ==
    LET hard == hard_bcs(domain, obstacles)
        velocity1 == coupled_velocity(velocity, domain, obstacles)
        div == solve_divergence(velocity, domain, obstacles)
    IN  IF ~(\E b \in DOMAIN velocity : solve.converged[b])
        THEN Raise("AssertionError", solve.iterations)
        ELSE
        LET gradp == Tab(Len(velocity), LAMBDA b :
                        TMul(StaggeredGradient(solve.pressure[b]).values, hard.values))
        IN  Return([velocity |-> Tab(Len(velocity), LAMBDA b :
                                     With(velocity1[b], TSub(velocity1[b].values, gradp[b]))),
                    pressure |-> solve.pressure,
                    iterations |-> solve.iterations,
                    div |-> div])

\* solve is what field.conjugate_gradient answered (line 37); the error's
\* argument is the iteration count the message is formatted with
make_incompressible(velocity, domain, obstacles, solve) ==
    LET hard == hard_bcs(domain, obstacles)
        velocity1 == coupled_velocity(velocity, domain, obstacles)
        div == solve_divergence(velocity, domain, obstacles)
    IN  IF ~(\A b \in DOMAIN velocity : solve.converged[b])
        THEN Raise("AssertionError", solve.iterations)
        ELSE
        LET gradp == Tab(Len(velocity), LAMBDA b :
                        TMul(StaggeredGradient(solve.pressure[b]).values, hard.values))
        IN  Return([velocity |-> Tab(Len(velocity), LAMBDA b :
                                     With(velocity1[b], TSub(velocity1[b].values, gradp[b]))),
                    pressure |-> solve.pressure,
                    iterations |-> solve.iterations,
                    div |-> div])

\* the names bound in the namespace of fluid.py (its imports, lines 4-14, and
\* its definitions)
ModuleNames ==
    {"partial", "np", "math", "struct", "field", "GeometryMask", "AngularVelocity",
     "CenteredGrid", "Grid", "divergence", "union", "_advect", "Domain", "Material",
     "Gravity", "effect_applied", "gravity_tensor", "Physics", "StateDependency", "State",
     "make_incompressible", "layer_obstacle_velocities", "masked_laplace", "Fluid",
     "IncompressibleFlow"}

\* looking a global name up at run time
ResolveGlobal(name) ==
    IF name \in ModuleNames THEN Return(name) ELSE Raise("NameError", name)

\* reading a local variable of the running function
ReadLocal(bound, name) ==
    IF name \in DOMAIN bound THEN Return(bound[name]) ELSE Raise("UnboundLocalError", name)

Bind(bound, name, value) == (name :> value) @@ bound

IncompressibleFlow(make_input_divfree, make_output_divfree, conserve_density) ==
    [make_input_divfree |-> make_input_divfree,
     make_output_divfree |-> make_output_divfree,
     conserve_density |-> conserve_density]

Fluid(domain_, density, velocity_, buoyancy_factor, age, solve_info) ==
    [domain |-> domain_, density |-> density, velocity |-> velocity_,
     buoyancy_factor |-> buoyancy_factor, age |-> age, solve_info |-> solve_info]

\* np.all(Material.solid(boundaries))
AllSolid(boundaries) == \A s \in 1..2 : boundaries[s] = "CLOSED"

\* field.normalize(f, reference): f scaled to the total of reference
Normalize(f, reference) ==
    With(f, TScale(RDiv(RSum(reference.values), RSum(f.values)), f.values))

\* effect_applied(effect, f, dt): GROW adds value * dt, ADD adds value, FIX sets value
effect_applied(effect, f, dt_) ==
    IF effect.mode = "GROW" THEN With(f, Tab(Len(f.values), LAMBDA i : RAdd(f.values[i], RMul(effect.value, dt_))))
    ELSE IF effect.mode = "ADD" THEN With(f, Tab(Len(f.values), LAMBDA i : RAdd(f.values[i], effect.value)))
    ELSE With(f, Tab(Len(f.values), LAMBDA i : effect.value))

\* field.divergence_free(velocity, obstacles, return_info=True), the function the
\* docstring of make_incompressible names: a velocity without divergence, which
\* on the one axis of the model is a uniform one, and the solve's info
divergence_free(velocity_, obstacles_) ==
    {[velocity |-> With(velocity_, Tab(Len(velocity_.values), LAMBDA j : velocity_.values[c])),
      solve_info |-> [iterations |-> k]] :
        c \in DOMAIN velocity_.values, k \in 0..MaxIter}

\* line 157: velocity += (density * -gravity * buoyancy_factor * dt).at(velocity)
with_buoyancy(velocity_, density, gravity_, buoyancy_factor, dt_) ==
    LET force == With(density,
                      TScale(RMul(RMul(RNeg(gravity_), buoyancy_factor), dt_), density.values))
    IN  With(velocity_, TAdd(velocity_.values, SampleIn(force, Points(velocity_))))

(* ------------------------------- state --------------------------------- *)

VARIABLES
    pc,                   \* "ready" before the call, "done" after it
    called,               \* the function that was called
    returned,             \* what the call returned or raised
    field,                \* advect.py: the field argument
    velocity,             \* the velocity argument
    dt,                   \* the time increment
    correction_strength,  \* mac_cormack's correction_strength
    domain,               \* fluid.py: the domain argument
    obstacles,            \* the list of obstacles
    relative_tolerance,   \* tolerances and iteration bound of the pressure solve
    absolute_tolerance,
    max_iterations,
    solve,                \* what field.conjugate_gradient answered
    physics,              \* IncompressibleFlow: self
    fluid,                \* step: the fluid argument
    gravity,              \* the gravity argument
    density_effects,      \* the lists of effects
    velocity_effects,
    locals                \* step's local variables that are bound

advectArgs == <<field, dt, correction_strength>>

projectArgs == <<domain, obstacles, relative_tolerance, absolute_tolerance, max_iterations>>

stepArgs == <<physics, fluid, gravity, density_effects, velocity_effects>>

vars == <<pc, called, returned, velocity, advectArgs, projectArgs, solve, stepArgs, locals>>

\* the arguments of the other file's functions, while none of them runs
NoAdvectArgs == field = <<>> /\ dt = Num(0) /\ correction_strength = Num(0)

NoProjectArgs ==
    /\ domain = <<>>
    /\ obstacles = <<>>
    /\ relative_tolerance = Num(0)
    /\ absolute_tolerance = Num(0)
    /\ max_iterations = 0
    /\ solve = <<>>

NoStepArgs ==
    /\ physics = <<>>
    /\ fluid = <<>>
    /\ gravity = Num(0)
    /\ density_effects = <<>>
    /\ velocity_effects = <<>>
    /\ locals = <<>>

NotCalled == [ok |-> FALSE, error |-> "", arg |-> ""]

(* --------------------------- inputs: advect.py -------------------------- *)

Tensors(n, S) == [1..n -> {Num(v) : v \in S}]

GridExtrapolations == {<<"zero", "zero">>, <<"boundary", "boundary">>, <<"periodic", "periodic">>}

DtSet == {Rat(k, 2) : k \in 0..MaxDt}

GridFields ==
    {CenteredGrid(t, e) : t \in Tensors(Res, 0..MaxVal), e \in GridExtrapolations}
    \cup {StaggeredGrid(t, <<"boundary", "boundary">>) : t \in Tensors(Res + 1, 0..MaxVal)}

AnalyticFields ==
    {ConstantField(Num(v)) : v \in -1..1}
    \cup {AngularVelocity(Num(1), Num(w)) : w \in {-1, 1}}

GridVelocities ==
    {CenteredGrid(t, <<"boundary", "boundary">>) : t \in Tensors(Res, -1..1)}
    \cup {StaggeredGrid(t, <<"zero", "zero">>) : t \in Tensors(Res + 1, {0, 1})}

PointSets == UNION {[1..n -> {Num(0), Rat(1, 2), Num(1)}] : n \in 1..MaxPoints}

PointClouds ==
    {PointCloud(e, [i \in DOMAIN e |-> Num(i)], x, a) :
        e \in PointSets, x \in {<<"zero", "zero">>, <<"boundary", "boundary">>}, a \in BOOLEAN}

\* point-cloud velocities for a cloud with elements e: on the same elements, or on others
PointVelocities(e) ==
    {PointCloud(e, t, <<"zero", "zero">>, FALSE) : t \in Tensors(Len(e), -1..1)}
    \cup {PointCloud([i \in DOMAIN e |-> RAdd(e[i], Num(1))], t, <<"zero", "zero">>, FALSE) :
            t \in Tensors(Len(e), {1})}
    \cup {PointCloud(<<Num(0)>>, <<Num(1)>>, <<"zero", "zero">>, FALSE)}

InitAdvect ==
    /\ NoProjectArgs
    /\ NoStepArgs
    /\ pc = "ready"
    /\ called = ""
    /\ returned = NotCalled
    /\ dt \in DtSet
    /\ \/ /\ field \in GridFields
          /\ velocity \in AnalyticFields \cup GridVelocities
          /\ correction_strength \in {Num(0), Rat(1, 2), Num(1)}
       \/ /\ field \in PointClouds
          /\ velocity \in AnalyticFields \cup GridVelocities \cup PointVelocities(field.elements)
          /\ correction_strength = Num(1)
       \/ /\ field \in AnalyticFields
          /\ velocity \in AnalyticFields \cup GridVelocities
          /\ correction_strength = Num(1)

Finish(name, outcome) ==
    /\ pc = "ready"
    /\ pc' = "done"
    /\ called' = name
    /\ returned' = outcome

CallAdvect ==
    /\ Finish("advect", advect(field, velocity, dt))
    /\ UNCHANGED <<velocity, advectArgs, projectArgs, solve, stepArgs, locals>>

CallSemiLagrangian ==
    /\ IsInstance(field, {"CenteredGrid", "StaggeredGrid"})
    /\ Finish("semi_lagrangian", semi_lagrangian(field, velocity, dt))
    /\ UNCHANGED <<velocity, advectArgs, projectArgs, solve, stepArgs, locals>>

CallMacCormack ==
    /\ IsInstance(field, {"CenteredGrid", "StaggeredGrid"})
    /\ Finish("mac_cormack", mac_cormack(field, velocity, dt, correction_strength))
    /\ UNCHANGED <<velocity, advectArgs, projectArgs, solve, stepArgs, locals>>

CallRungeKutta4 ==
    /\ IsInstance(field, {"PointCloud"})
    /\ Finish("runge_kutta_4", runge_kutta_4(field, velocity, dt))
    /\ UNCHANGED <<velocity, advectArgs, projectArgs, solve, stepArgs, locals>>

CallPoints ==
    /\ IsInstance(field, {"PointCloud"})
    /\ IsInstance(velocity, {"PointCloud"})
    /\ Len(velocity.values) = Len(field.elements)
    /\ Finish("points", points(field, velocity, dt))
    /\ UNCHANGED <<velocity, advectArgs, projectArgs, solve, stepArgs, locals>>

NextAdvect == CallAdvect \/ CallSemiLagrangian \/ CallMacCormack \/ CallRungeKutta4 \/ CallPoints

SpecAdvect == InitAdvect /\ [][NextAdvect]_vars

(* --------------------------- inputs: fluid.py --------------------------- *)

Geometries == {Box(Num(0), Num(1)), Box(Rat(1, 2), Rat(3, 2)), Box(Num(1), Num(2))}

\* <<velocity, angular_velocity, is_stationary>>
Motions == {<<Num(0), Num(0), TRUE>>, <<Num(1), Num(0), TRUE>>,
            <<Num(1), Num(0), FALSE>>, <<Num(0), Num(1), FALSE>>}

Obstacles == {Obstacle(g, m[1], m[2], m[3]) : g \in Geometries, m \in Motions}

ObstacleLists == UNION {[1..n -> Obstacles] : n \in 0..MaxObstacles}

Domains == {Domain(l, u) : l \in Materials, u \in Materials}

StaggeredVelocities(domain_, S) ==
    {StaggeredGrid(t, vector_extrapolation(domain_.boundaries)) :
        t \in Tensors(domain_.resolution + 1, S)}

\* a batch of staggered velocities on the domain: every single velocity, and
\* the longer batches that end in one entry and repeat another before it
VelocityBatches(domain_) ==
    {<<v>> : v \in StaggeredVelocities(domain_, {0, 1})}
    \cup {[b \in 1..n |-> IF b = n THEN v ELSE w] :
            n \in 2..MaxBatch,
            v \in StaggeredVelocities(domain_, {0, 1}),
            w \in {StaggeredGrid([j \in 1..(domain_.resolution + 1) |-> Num(0)],
                                 vector_extrapolation(domain_.boundaries)),
                   StaggeredGrid([j \in 1..(domain_.resolution + 1) |-> Num(j - 1)],
                                 vector_extrapolation(domain_.boundaries))}}

InitProject ==
    /\ NoAdvectArgs
    /\ NoStepArgs
    /\ pc = "ready"
    /\ called = ""
    /\ returned = NotCalled
    /\ solve = <<>>
    /\ domain \in Domains
    /\ velocity \in VelocityBatches(domain)
    /\ obstacles \in {<<>>} \cup {<<o>> : o \in {x \in Obstacles : ~x.is_stationary \/ x.velocity = Num(0)}}
    /\ relative_tolerance = Rat(1, 100000)
    /\ absolute_tolerance \in {Num(0), Rat(1, 2)}
    /\ max_iterations \in 0..MaxIter

CallMakeIncompressible ==
    /\ \E cg \in conjugate_gradient(active_mask(domain, obstacles),
                                    accessible_mask(domain, obstacles),
                                    solve_divergence(velocity, domain, obstacles),
                                    ZeroGrid(domain),
                                    relative_tolerance, absolute_tolerance, max_iterations) :
          /\ solve' = cg
          /\ Finish("make_incompressible", make_incompressible(velocity, domain, obstacles, cg))
    /\ UNCHANGED <<velocity, advectArgs, projectArgs, stepArgs, locals>>

NextProject == CallMakeIncompressible

SpecProject == InitProject /\ [][NextProject]_vars

InitObstacles ==
    /\ NoAdvectArgs
    /\ NoStepArgs
    /\ pc = "ready"
    /\ called = ""
    /\ returned = NotCalled
    /\ solve = <<>>
    /\ domain \in {Domain("OPEN", "OPEN")}
    /\ velocity \in StaggeredVelocities(domain, -1..1)
    /\ obstacles \in ObstacleLists
    /\ relative_tolerance = Num(0)
    /\ absolute_tolerance = Num(0)
    /\ max_iterations = 0

CallLayerObstacleVelocities ==
    /\ Finish("layer_obstacle_velocities", Return(layer_obstacle_velocities(velocity, obstacles)))
    /\ UNCHANGED <<velocity, advectArgs, projectArgs, solve, stepArgs, locals>>

NextObstacles == CallLayerObstacleVelocities

SpecObstacles == InitObstacles /\ [][NextObstacles]_vars

(* ------------------------ IncompressibleFlow.step ----------------------- *)

Effects == {[mode |-> "GROW", value |-> Num(1)], [mode |-> "FIX", value |-> Num(1)]}

EffectLists == UNION {[1..n -> Effects] : n \in 0..MaxEffects}

InitStep ==
    /\ pc = "ready"
    /\ called = ""
    /\ returned = NotCalled
    /\ solve = <<>>
    /\ velocity = <<>>
    /\ domain = <<>>
    /\ relative_tolerance = Num(0)
    /\ absolute_tolerance = Num(0)
    /\ max_iterations = 0
    /\ field = <<>>
    /\ correction_strength = Num(0)
    /\ locals = <<>>
    /\ physics \in {IncompressibleFlow(i, o, c) : i \in BOOLEAN, o \in BOOLEAN, c \in BOOLEAN}
    /\ \E d \in {Domain("OPEN", "OPEN"), Domain("CLOSED", "CLOSED")} :
          fluid \in {Fluid(d, CenteredGrid(t, scalar_extrapolation(d.boundaries)), v, Num(b), Num(0),
                           [iterations |-> 0]) :
                        t \in Tensors(Res, {0, 1}),
                        v \in StaggeredVelocities(d, {0, 1}),
                        b \in {1}}
    /\ dt \in DtSet
    /\ obstacles \in {<<>>, <<Obstacle(Box(Num(0), Num(1)), Num(0), Num(0), TRUE)>>}
    /\ gravity = Num(-1)
    /\ density_effects \in EffectLists
    /\ velocity_effects \in {e \in EffectLists : Len(e) <= 1}

StepFrame == UNCHANGED <<called, velocity, advectArgs, projectArgs, solve, stepArgs>>

\* lines 142-146: the call, and the optional projection of the input velocity
StepEnter ==
    /\ pc = "ready"
    /\ called' = "step"
    /\ LET entered == [gravity |-> gravity, velocity |-> fluid.velocity, density |-> fluid.density,
                       density_effect |-> 0, velocity_effect |-> 0]
           callee == ResolveGlobal("divergence_free")
       IN  IF ~physics.make_input_divfree
           THEN pc' = "advect" /\ locals' = entered /\ returned' = returned
           ELSE IF ~callee.ok
           THEN pc' = "done" /\ locals' = entered /\ returned' = callee
           ELSE \E projected \in divergence_free(fluid.velocity, obstacles) :
                  /\ pc' = "advect"
                  /\ returned' = returned
                  /\ locals' = Bind(Bind(entered, "velocity", projected.velocity),
                                    "solve_info", projected.solve_info)
    /\ UNCHANGED <<velocity, advectArgs, projectArgs, solve, stepArgs>>

\* lines 148-151: advection, and the renormalisation of the density
StepAdvect ==
    /\ pc = "advect"
    /\ LET density == semi_lagrangian(locals.density, locals.velocity, dt).value
           advected_velocity == semi_lagrangian(locals.velocity, locals.velocity, dt).value
           conserved == IF physics.conserve_density /\ AllSolid(fluid.domain.boundaries)
                        THEN Normalize(density, fluid.density)
                        ELSE density
       IN  locals' = Bind(Bind(Bind(locals, "density", conserved), "velocity", advected_velocity),
                          "advected_velocity", advected_velocity)
    /\ pc' = "effects"
    /\ returned' = returned
    /\ StepFrame

\* lines 153-154: one pass of the loop over density_effects
StepDensityEffect ==
    /\ pc = "effects"
    /\ locals.density_effect < Len(density_effects)
    /\ locals' = Bind(Bind(locals, "density",
                           effect_applied(density_effects[locals.density_effect + 1],
                                          locals.density, dt)),
                      "density_effect", locals.density_effect + 1)
    /\ UNCHANGED <<pc, returned>>
    /\ StepFrame

\* lines 155-156: one pass of the loop over velocity_effects
StepVelocityEffect ==
    /\ pc = "effects"
    /\ locals.density_effect = Len(density_effects)
    /\ locals.velocity_effect < Len(velocity_effects)
    /\ locals' = Bind(Bind(locals, "velocity",
                           effect_applied(velocity_effects[locals.velocity_effect + 1],
                                          locals.velocity, dt)),
                      "velocity_effect", locals.velocity_effect + 1)
    /\ UNCHANGED <<pc, returned>>
    /\ StepFrame

\* lines 157-158: buoyancy
StepBuoyancy ==
    /\ pc = "effects"
    /\ locals.density_effect = Len(density_effects)
    /\ locals.velocity_effect = Len(velocity_effects)
    /\ LET velocity_ == with_buoyancy(locals.velocity, locals.density, locals.gravity,
                                      fluid.buoyancy_factor, dt)
       IN  locals' = Bind(Bind(locals, "velocity", velocity_), "divergent_velocity", velocity_)
    /\ pc' = "project"
    /\ returned' = returned
    /\ StepFrame

\* lines 160-161: the optional projection of the output velocity
StepProject ==
    /\ pc = "project"
    /\ LET callee == ResolveGlobal("divergence_free")
       IN  IF ~physics.make_output_divfree
           THEN pc' = "record" /\ UNCHANGED <<locals, returned>>
           ELSE IF ~callee.ok
           THEN pc' = "done" /\ returned' = callee /\ UNCHANGED locals
           ELSE \E projected \in divergence_free(locals.velocity, obstacles) :
                  /\ pc' = "record"
                  /\ returned' = returned
                  /\ locals' = Bind(Bind(locals, "velocity", projected.velocity),
                                    "solve_info", projected.solve_info)
    /\ StepFrame

\* lines 162-164: the diagnostics and the new state
StepReturn ==
    /\ pc = "record"
    /\ LET solve_info == ReadLocal(locals, "solve_info")
       IN  IF ~solve_info.ok
           THEN returned' = solve_info /\ UNCHANGED locals
           ELSE LET info == ("advected_velocity" :> locals.advected_velocity)
                            @@ ("divergent_velocity" :> locals.divergent_velocity)
                            @@ solve_info.value
                IN  /\ locals' = Bind(locals, "solve_info", info)
                    /\ returned' = Return([fluid EXCEPT !.density = locals.density,
                                                        !.velocity = locals.velocity,
                                                        !.age = RAdd(fluid.age, dt),
                                                        !.solve_info = info])
    /\ pc' = "done"
    /\ StepFrame

NextStep ==
    \/ StepEnter
    \/ StepAdvect
    \/ StepDensityEffect
    \/ StepVelocityEffect
    \/ StepBuoyancy
    \/ StepProject
    \/ StepReturn

SpecStep == InitStep /\ [][NextStep]_vars

(* ------------------------------- claims -------------------------------- *)

SameElements == IsInstance(velocity, {"PointCloud"}) /\ velocity.elements = field.elements

\* C2: advect dispatches on the kind of field.  A ConstantField comes back
\* unchanged; a PointCloud whose elements equal those of a PointCloud
\* velocity gets the Euler point scheme; every other PointCloud gets
\* runge_kutta_4 and no mismatch assertion is raised; a CenteredGrid or
\* StaggeredGrid gets semi_lagrangian; any other kind raises
\* NotImplementedError carrying the field.
C2_AdvectDispatch ==
    called = "advect" =>
        /\ field.kind = "ConstantField" => returned = Return(field)
        /\ (field.kind = "PointCloud" /\ SameElements) =>
              returned = points(field, velocity, dt) /\ returned.ok
        /\ (field.kind = "PointCloud" /\ ~SameElements) =>
              /\ returned = runge_kutta_4(field, velocity, dt)
              /\ returned.ok
        /\ field.kind \in {"CenteredGrid", "StaggeredGrid"} =>
              returned = semi_lagrangian(field, velocity, dt)
        /\ field.kind \notin {"ConstantField", "PointCloud", "CenteredGrid", "StaggeredGrid"} =>
              returned = Raise("NotImplementedError", field)
        /\ ~returned.ok => returned.error = "NotImplementedError"

C2_Witness ==
    /\ called = "advect"
    /\ field.kind = "PointCloud"
    /\ velocity.kind = "PointCloud"
    /\ velocity.elements # field.elements
    /\ returned.ok
    /\ returned.value.elements # field.elements

\* C8: with correction_strength = 0 mac_cormack returns the values that
\* semi_lagrangian returns for the same field, velocity and dt.
C8_MacCormackDegenerate ==
    (called = "mac_cormack" /\ correction_strength = Num(0)) =>
        /\ returned.ok
        /\ returned.value.values = semi_lagrangian(field, velocity, dt).value.values

C8_Witness ==
    /\ called = "mac_cormack"
    /\ correction_strength = Num(0)
    /\ returned.ok
    /\ returned.value.values # field.values
    /\ returned.value.values # mac_cormack(field, velocity, dt, Num(1)).value.values

\* the velocity has the value c at every position
SpatiallyConstant(c) ==
    \/ velocity.kind = "ConstantField" /\ velocity.value = c
    \/ /\ velocity.kind \in {"CenteredGrid", "StaggeredGrid"}
       /\ velocity.extrapolation \in {<<"boundary", "boundary">>, <<"periodic", "periodic">>}
       /\ \A i \in DOMAIN velocity.values : velocity.values[i] = c

Displaced(delta) ==
    /\ returned.ok
    /\ returned.value.kind = "PointCloud"
    /\ returned.value.elements = [i \in DOMAIN field.elements |-> RAdd(field.elements[i], delta[i])]
    /\ returned.value.values = field.values
    /\ returned.value.extrapolation = field.extrapolation

\* C10: for a spatially constant velocity c, runge_kutta_4 moves every point
\* by dt * c, as the Euler scheme does with per-point velocity c; the Euler
\* scheme moves point i by dt * velocity.values[i]; values and extrapolation
\* carry over, and with zero velocity the points stay where they are.
C10_UniformVelocity ==
    /\ \A c \in {Num(v) : v \in -1..1} :
          (called = "runge_kutta_4" /\ SpatiallyConstant(c)) =>
              /\ Displaced([i \in DOMAIN field.elements |-> RMul(dt, c)])
              /\ c = Num(0) => returned.value.elements = field.elements
    /\ (called = "points" /\ returned.ok) =>
          /\ Displaced([i \in DOMAIN field.elements |-> RMul(dt, velocity.values[i])])
          /\ (\A i \in DOMAIN velocity.values : velocity.values[i] = Num(0)) =>
                returned.value.elements = field.elements

C10_Witness ==
    /\ called = "runge_kutta_4"
    /\ SpatiallyConstant(Num(1))
    /\ velocity.kind = "CenteredGrid"
    /\ dt = Num(1)
    /\ returned.ok
    /\ returned.value.elements # field.elements

\* the mean-removed divergence the pressure solve is given for entry b
SolveDivergence(b) == solve_divergence(velocity, domain, obstacles)[b].values

C6_ReturnsInputDivergence ==
    (called = "make_incompressible" /\ returned.ok) =>
        \A b \in DOMAIN velocity :
            returned.value.div[b].values = Divergence(velocity[b]).values

\* C7: when make_incompressible returns, the velocity is the masked, coupled
\* velocity less the masked gradient of a pressure reported converged, and in
\* an obstacle-free, fully open domain the divergence of the result is within
\* the requested tolerance of zero everywhere.
C7_DivergenceWithinTolerance ==
    (called = "make_incompressible" /\ returned.ok) =>
        \A b \in DOMAIN velocity :
            /\ solve.converged[b]
            /\ returned.value.velocity[b].values =
                  TSub(coupled_velocity(velocity, domain, obstacles)[b].values,
                       TMul(StaggeredGradient(returned.value.pressure[b]).values,
                            hard_bcs(domain, obstacles).values))
            /\ (obstacles = <<>> /\ domain.boundaries = <<"OPEN", "OPEN">>) =>
                  WithinTolerance(Divergence(returned.value.velocity[b]).values,
                                  Divergence(velocity[b]).values,
                                  relative_tolerance, absolute_tolerance)

Movers == {k \in DOMAIN obstacles : ~obstacles[k].is_stationary}

MaskAt(k, j) == GeometryMaskAt(obstacles[k].geometry, Points(velocity)[j])

\* angular velocity field about the obstacle's centre plus its linear velocity
RigidVelocityAt(k, j) ==
    RAdd(RMul(obstacles[k].angular_velocity,
              RSub(Points(velocity)[j], Center(obstacles[k].geometry))),
         obstacles[k].velocity)

Last(S) == CHOOSE k \in S : \A m \in S : m <= k

\* C9 as claimed: stationary obstacles are skipped; at a sample point whose
\* mask is 1 for some non-stationary obstacles the result is the rigid
\* velocity of the last of those; at a sample point where every
\* non-stationary obstacle's mask is 0 the velocity is unchanged.
C9_LastFullCoverWins ==
    called = "layer_obstacle_velocities" =>
        /\ Movers = {} => returned.value = velocity
        /\ \A j \in DOMAIN velocity.values :
              LET full == {k \in Movers : MaskAt(k, j) = Num(1)}
              IN  /\ full # {} => returned.value.values[j] = RigidVelocityAt(Last(full), j)
                  /\ (\A k \in Movers : MaskAt(k, j) = Num(0)) =>
                        returned.value.values[j] = velocity.values[j]

\* C9 amended: stationary obstacles are skipped; at a sample point where the
\* last non-stationary obstacle with a nonzero mask has mask 1 the result is
\* that obstacle's rigid velocity; at a sample point where every
\* non-stationary obstacle's mask is 0 the velocity is unchanged.
C9_LastCoverWins ==
    called = "layer_obstacle_velocities" =>
        /\ Movers = {} => returned.value = velocity
        /\ \A j \in DOMAIN velocity.values :
              LET touching == {k \in Movers : MaskAt(k, j) # Num(0)}
              IN  /\ (touching # {} /\ MaskAt(Last(touching), j) = Num(1)) =>
                        returned.value.values[j] = RigidVelocityAt(Last(touching), j)
                  /\ touching = {} => returned.value.values[j] = velocity.values[j]

C9_Witness ==
    /\ called = "layer_obstacle_velocities"
    /\ Len(obstacles) = 2
    /\ obstacles[1].is_stationary
    /\ obstacles[1].velocity # Num(0)
    /\ \E j \in DOMAIN velocity.values :
          /\ MaskAt(1, j) # Num(0)
          /\ MaskAt(2, j) = Num(1)
          /\ 2 \in Movers
          /\ returned.value.values[j] = RigidVelocityAt(2, j)
          /\ returned.value.values[j] # velocity.values[j]
    /\ \E j \in DOMAIN velocity.values :
          /\ MaskAt(2, j) = Num(0)
          /\ MaskAt(1, j) # Num(0)
          /\ returned.value.values[j] = velocity.values[j]
          /\ velocity.values[j] # Num(0)


(* --------------------------- claims about step -------------------------- *)

StepDone == called = "step" /\ pc = "done"

\* C3: step returns a new Fluid whose age is the input age plus dt and whose
\* density and velocity are the updated fields, and the input fluid is the
\* same after every step of the call as before it.
C3_StepReturnsAgedState ==
    [][/\ fluid' = fluid
       /\ (called' = "step" /\ pc' = "done") =>
              /\ returned'.ok
              /\ returned'.value.age = RAdd(fluid.age, dt)
              /\ returned'.value.density = locals'.density
              /\ returned'.value.velocity = locals'.velocity]_vars

\* C4: a finished step has run advection, the density effects, the velocity
\* effects, buoyancy and then the projection, and its recorded
\* 'divergent_velocity' is the velocity after buoyancy and 'advected_velocity'
\* the velocity right after advection.
C4_StepRecordsPhases ==
    StepDone =>
        /\ locals.density_effect = Len(density_effects)
        /\ locals.velocity_effect = Len(velocity_effects)
        /\ returned.ok
        /\ returned.value.solve_info.advected_velocity
               = semi_lagrangian(fluid.velocity, fluid.velocity, dt).value
        /\ returned.value.solve_info.divergent_velocity = locals.divergent_velocity

\* C5: for every combination of make_input_divfree and make_output_divfree
\* step completes and returns a Fluid with diagnostics, and with
\* make_output_divfree off the returned velocity is the divergent velocity.
C5_ProjectionOptional ==
    StepDone =>
        /\ returned.ok
        /\ "iterations" \in DOMAIN returned.value.solve_info
        /\ ~physics.make_output_divfree =>
               returned.value.velocity = locals.divergent_velocity

====
